---------------------------- MODULE Spec2Model ----------------------------
(***************************************************************************)
(* Model of the release script of webergency-types/iam (src/types.d.ts):   *)
(* the keypress-driven Prompt, PackageManager.bumpVersion, and the         *)
(* PackageManager.publish / main workflow with its rollback.               *)
(*                                                                         *)
(* A JavaScript string is a sequence of pieces.  Strings the code takes    *)
(* apart (version numbers) are sequences of one-character strings, so that *)
(* split / parseInt / startsWith / template formatting are computed the    *)
(* way the code computes them; text the code only compares or passes on    *)
(* (option keys, labels, questions) is a sequence holding the whole word.  *)
(***************************************************************************)
EXTENDS Integers, Sequences, FiniteSets, TLC

VARIABLES
    pc,                      \* position of main / publish (the next await to resume)
    vin,                     \* components the manifest's version string was written from
    disk0,                   \* package.json on disk before the run
    disk,                    \* package.json on disk
    writes,                  \* manifests written by savePackageJson during the run, in order
    packageJson,             \* publish's parsed manifest object
    versionType,             \* publish / bumpVersion argument
    isRc,                    \* publish / bumpVersion argument
    incrementRcOnly,         \* publish / bumpVersion argument
    originalVersion,         \* publish's snapshot of packageJson.version
    originalDevDependencies, \* publish's snapshot of packageJson.devDependencies
    newVersion,              \* result of bumpVersion
    child,                   \* the external command DebugExec is waiting for
    started,                 \* external commands spawned so far, in order
    failure,                 \* the command that exited with a failing code, and the code
    confirmation,            \* how publish's confirmation prompt settled
    stderr,                  \* who printed an error diagnostic (console.error)
    publishOutcome,          \* how the promise returned by publish settled
    mainOutcome,             \* how the promise returned by main settled
    exitCode,                \* code the process exited with
    question,                \* Prompt.question
    options,                 \* Prompt.options
    keys,                    \* Prompt.keys
    selected,                \* Prompt.selected
    rawMode,                 \* process.stdin raw mode
    listening,               \* Prompt.handler subscribed to 'keypress'
    promise,                 \* the promise returned by the last Prompt.select
    key,                     \* the last key event delivered to Prompt.handler
    renders,                 \* renders caused by the last key event / select call
    cleared,                 \* terminal lines the last render cleared before drawing
    drawn,                   \* terminal lines the last frame drew
    runStart,                \* selected index when the current run of 'down' events began
    downRun                  \* length of the current run of consecutive 'down' events

bumpVars   == <<vin, versionType, isRc, incrementRcOnly, originalVersion, newVersion>>
fileVars   == <<disk0, disk, writes, packageJson, originalDevDependencies>>
flowVars   == <<child, started, failure, confirmation, stderr, publishOutcome, mainOutcome, exitCode>>
promptVars == <<question, options, keys, selected, rawMode, listening, promise>>
traceVars  == <<key, renders, cleared, drawn, runStart, downRun>>
vars       == <<pc, bumpVars, fileVars, flowVars, promptVars, traceVars>>

---------------------------------------------------------------------------
(* Bounds of the model.                                                    *)

\* version components of the inputs of bumpVersion range over 0..MaxNum
MaxNum == 10
\* release-candidate counters of the inputs range over 1..MaxRc
MaxRc == 2
\* version components of the manifest on disk in a run of main range over 0..MaxDiskNum
MaxDiskNum == 1
\* failing exit codes of an external command range over 1..MaxExitCode
MaxExitCode == 2
\* option lists given to a stand-alone select have 1..MaxOpts options
MaxOpts == 4

---------------------------------------------------------------------------
(* JavaScript values and string primitives.                                *)

\* undefined / null are one-element sequences holding a word no character equals
Undefined == <<"undefined">>
Null      == <<"null">>
\* NaN, as produced by parseInt on a string with no leading digit
NaN       == -1

DigitChars == <<"0", "1", "2", "3", "4", "5", "6", "7", "8", "9">>

IsDigit(c) == \E i \in 1..10 : DigitChars[i] = c

DigitVal(c) == (CHOOSE i \in 1..10 : DigitChars[i] = c) - 1

\* String(n) for a non-negative integer, and for NaN
RECURSIVE ToStr(_)
ToStr(n) ==
    IF n = NaN THEN <<"N", "a", "N">>
    ELSE IF n < 10 THEN <<DigitChars[n + 1]>>
    ELSE ToStr(n \div 10) \o <<DigitChars[(n % 10) + 1]>>

\* parseInt(s, 10): the value of the longest prefix of digits, NaN if there is none
RECURSIVE ParseIntAcc(_, _, _)
ParseIntAcc(s, i, acc) ==
    IF i > Len(s) \/ ~IsDigit(s[i])
    THEN (IF i = 1 THEN NaN ELSE acc)
    ELSE ParseIntAcc(s, i + 1, acc * 10 + DigitVal(s[i]))

ParseInt(s) == ParseIntAcc(s, 1, 0)

\* s.split(d): the segments of s between the occurrences of d
RECURSIVE SplitAcc(_, _, _, _, _)
SplitAcc(s, d, i, cur, acc) ==
    IF i > Len(s) THEN Append(acc, cur)
    ELSE IF s[i] = d THEN SplitAcc(s, d, i + 1, <<>>, Append(acc, cur))
    ELSE SplitAcc(s, d, i + 1, Append(cur, s[i]), acc)

Split(s, d) == SplitAcc(s, d, 1, <<>>, <<>>)

\* parts.join(d)
RECURSIVE Join(_, _)
Join(parts, d) ==
    IF Len(parts) = 0 THEN <<>>
    ELSE IF Len(parts) = 1 THEN parts[1]
    ELSE parts[1] \o <<d>> \o Join(Tail(parts), d)

Includes(s, c) == \E i \in 1..Len(s) : s[i] = c

StartsWith(s, p) == Len(s) >= Len(p) /\ SubSeq(s, 1, Len(p)) = p

\* parts[i] with JavaScript's 0-based index: undefined past the end
At(parts, i) == IF i + 1 <= Len(parts) THEN parts[i + 1] ELSE Undefined

\* x || '0' : undefined and the empty string are falsy
OrZero(x) == IF x = Undefined \/ x = <<>> THEN <<"0">> ELSE x

\* n++ on a number that may be NaN
Inc(n) == IF n = NaN THEN NaN ELSE n + 1

---------------------------------------------------------------------------
(* PackageManager.bumpVersion                                              *)

\* const parts = version.split('.'); major, minor, patch, prerelease
ParseVersion(version) ==
    LET parts == Split(version, ".")
        p2    == At(parts, 2)
    IN  [ major      |-> ParseInt(OrZero(At(parts, 0))),
          minor      |-> ParseInt(OrZero(At(parts, 1))),
          patch      |-> ParseInt(OrZero(IF p2 = Undefined THEN Undefined
                                         ELSE At(Split(p2, "-"), 0))),
          prerelease |-> IF p2 # Undefined /\ Includes(p2, "-")
                         THEN Join(Tail(Split(p2, "-")), "-")
                         ELSE Null ]

\* mutant: the patch case forgets to clear the prerelease
BaseBump_KeepPrerelease(v, type) ==
    CASE type = <<"major">> -> [v EXCEPT !.major = Inc(v.major), !.minor = 0, !.patch = 0,
                                     !.prerelease = Null]
      [] type = <<"minor">> -> [v EXCEPT !.minor = Inc(v.minor), !.patch = 0]
      [] type = <<"patch">> -> [v EXCEPT !.patch = Inc(v.patch)]
      [] OTHER          -> v

\* switch(type): the base bump; no case for 'rc'
BaseBump(v, type) ==
    CASE type = <<"major">> -> [v EXCEPT !.major = Inc(v.major), !.minor = 0, !.patch = 0,
                                     !.prerelease = Null]
      [] type = <<"minor">> -> [v EXCEPT !.minor = Inc(v.minor), !.patch = 0,
                                     !.prerelease = Null]
      [] type = <<"patch">> -> [v EXCEPT !.patch = Inc(v.patch), !.prerelease = Null]
      [] OTHER          -> v

\* mutant: the base bump runs even when only the RC counter is to be incremented
BumpBase_IgnoreRcOnly(v, type, rcOnly) == BaseBump(v, type)

\* if (!incrementRcOnly) { switch(type) ... }
BumpBase(v, type, rcOnly) == IF ~rcOnly THEN BaseBump(v, type) ELSE v

\* mutant: the first release candidate is numbered 0
AddRc_FromZero(v) ==
    IF v.prerelease # Null /\ v.prerelease # <<>> /\ StartsWith(v.prerelease, <<"r", "c", ".">>)
    THEN [v EXCEPT !.prerelease =
            <<"r", "c", ".">> \o ToStr(Inc(ParseInt(OrZero(At(Split(v.prerelease, "."), 1)))))]
    ELSE [v EXCEPT !.prerelease = <<"r", "c", ".", "0">>]

\* if (isRc): increment the counter of an 'rc.' prerelease, else start at rc.1
AddRc(v) ==
    IF v.prerelease # Null /\ v.prerelease # <<>> /\ StartsWith(v.prerelease, <<"r", "c", ".">>)
    THEN [v EXCEPT !.prerelease =
            <<"r", "c", ".">> \o ToStr(Inc(ParseInt(OrZero(At(Split(v.prerelease, "."), 1)))))]
    ELSE [v EXCEPT !.prerelease = <<"r", "c", ".", "1">>]

\* `${major}.${minor}.${patch}` plus `-${prerelease}` when prerelease is truthy
Serialize(v) ==
    LET base == ToStr(v.major) \o <<".">> \o ToStr(v.minor) \o <<".">> \o ToStr(v.patch)
    IN  IF v.prerelease # Null /\ v.prerelease # <<>>
        THEN base \o <<"-">> \o v.prerelease
        ELSE base

bumpVersion(version, type, rc, rcOnly) ==
    LET parsed == ParseVersion(version)
        based  == BumpBase(parsed, type, rcOnly)
        withRc == IF rc THEN AddRc(based) ELSE based
    IN  Serialize(withRc)

---------------------------------------------------------------------------
(* Version strings the manifest can hold.                                  *)

VersionTypes == {<<"rc">>, <<"patch">>, <<"minor">>, <<"major">>}

RcSuffix(n) == <<"-", "r", "c", ".">> \o ToStr(n)

NoSuffix == <<>>

BetaSuffix == <<"-", "b", "e", "t", "a", ".", "1">>

Suffixes == {NoSuffix, BetaSuffix} \cup {RcSuffix(n) : n \in 1..MaxRc}

\* the string form major.minor.patch[-label.N] of a version
VersionString(c) ==
    ToStr(c.major) \o <<".">> \o ToStr(c.minor) \o <<".">> \o ToStr(c.patch) \o c.suffix

Components(maxNum) ==
    [major : 0..maxNum, minor : 0..maxNum, patch : 0..maxNum, suffix : Suffixes]

---------------------------------------------------------------------------
(* Prompt                                                                  *)

\* a JavaScript value used as a condition: undefined, null and '' are falsy
Truthy(x) == x # Undefined /\ x # Null /\ x # <<>>

\* a % n with JavaScript's sign rule (the sign of the dividend)
JsMod(a, n) == IF a >= 0 THEN a % n ELSE 0 - ((0 - a) % n)

\* key events process.stdin can emit
KeyEvents ==
    {[name |-> n, ctrl |-> FALSE] : n \in {"up", "down", "return", "escape", "c", "a"}}
        \cup {[name |-> "c", ctrl |-> TRUE], [name |-> "a", ctrl |-> TRUE]}

NoKeyEvent == [name |-> "none", ctrl |-> FALSE]

NoPromise == [state |-> "none", value |-> Undefined]

Pending == [state |-> "pending", value |-> Undefined]

\* lines a frame occupies: the options, plus 2 when a question is shown
FrameLines(q, opts) == Len(opts) + (IF Truthy(q) THEN 2 ELSE 0)

\* mutant: the index is moved without wrapping
NextSelected_NoWrap(sel, offset, n) == sel + offset

\* ( selected + offset + options.length ) % options.length
NextSelected(sel, offset, n) == JsMod(sel + offset + n, n)

\* mutant: Enter always reports the first option
Dispatch_FirstKey(k) ==
    CASE k.name = "up"     -> [op |-> "render", offset |-> 0 - 1, arg |-> Undefined]
      [] k.name = "down"   -> [op |-> "render", offset |-> 1, arg |-> Undefined]
      [] k.name = "return" -> [op |-> "exit", offset |-> 0, arg |-> At(keys, 0)]
      [] k.name = "escape" -> [op |-> "exit", offset |-> 0, arg |-> Undefined]
      [] k.name = "c" /\ k.ctrl -> [op |-> "exit", offset |-> 0, arg |-> Undefined]
      [] OTHER             -> [op |-> "none", offset |-> 0, arg |-> Undefined]


\* mutant: 'c' exits without the ctrl test
Dispatch_PlainC(k) ==
    CASE k.name = "up"     -> [op |-> "render", offset |-> 0 - 1, arg |-> Undefined]
      [] k.name = "down"   -> [op |-> "render", offset |-> 1, arg |-> Undefined]
      [] k.name = "return" -> [op |-> "exit", offset |-> 0, arg |-> At(keys, selected)]
      [] k.name = "escape" -> [op |-> "exit", offset |-> 0, arg |-> Undefined]
      [] k.name = "c"      -> [op |-> "exit", offset |-> 0, arg |-> Undefined]
      [] OTHER             -> [op |-> "none", offset |-> 0, arg |-> Undefined]

\* this.handler: switch( key.name )
Dispatch(k) ==
    CASE k.name = "up"     -> [op |-> "render", offset |-> 0 - 1, arg |-> Undefined]
      [] k.name = "down"   -> [op |-> "render", offset |-> 1, arg |-> Undefined]
      [] k.name = "return" -> [op |-> "exit", offset |-> 0, arg |-> At(keys, selected)]
      [] k.name = "escape" -> [op |-> "exit", offset |-> 0, arg |-> Undefined]
      [] k.name = "c" /\ k.ctrl -> [op |-> "exit", offset |-> 0, arg |-> Undefined]
      [] OTHER             -> [op |-> "none", offset |-> 0, arg |-> Undefined]

\* key ? this.resolve?.( key ) : this.reject?.( key ); a settled promise stays as it is
Settle(p, k) ==
    IF p.state # "pending" THEN p
    ELSE IF Truthy(k) THEN [state |-> "resolved", value |-> k]
    ELSE [state |-> "rejected", value |-> k]


\* mutant: render clears one line more, as exit does
Render_ClearsOneMore(offset) ==
    /\ cleared' = FrameLines(question, options) + 1
    /\ selected' = NextSelected(selected, offset, Len(options))
    /\ drawn' = FrameLines(question, options)
    /\ renders' = 1
    /\ UNCHANGED <<question, options, keys, rawMode, listening, promise>>

\* render( offset ) for a number: clear the previous frame, move, draw
Render(offset) ==
    /\ cleared' = FrameLines(question, options)
    /\ selected' = NextSelected(selected, offset, Len(options))
    /\ drawn' = FrameLines(question, options)
    /\ renders' = 1
    /\ UNCHANGED <<question, options, keys, rawMode, listening, promise>>


\* mutant: exit settles the select without events('off')
Exit_KeepListening(k) ==
    /\ cleared' = Len(options) + 1 + (IF Truthy(question) THEN 2 ELSE 0)
    /\ drawn' = 0
    /\ renders' = 0
    /\ promise' = Settle(promise, k)
    /\ UNCHANGED <<question, options, keys, selected, rawMode, listening>>

\* exit( key ): clear, events('off'), settle
Exit(k) ==
    /\ cleared' = Len(options) + 1 + (IF Truthy(question) THEN 2 ELSE 0)
    /\ drawn' = 0
    /\ renders' = 0
    /\ rawMode' = FALSE
    /\ listening' = FALSE
    /\ promise' = Settle(promise, k)
    /\ UNCHANGED <<question, options, keys, selected>>

\* select( question, options ): the state after the promise executor has run
Select(q, ks, labels) ==
    /\ question' = q
    /\ options' = labels
    /\ keys' = ks
    /\ promise' = Pending
    /\ rawMode' = TRUE
    /\ listening' = TRUE
    /\ cleared' = 0
    /\ selected' = NextSelected(0, 0, Len(labels))
    /\ drawn' = FrameLines(q, labels)
    /\ renders' = 1
    /\ key' = NoKeyEvent
    /\ runStart' = 0
    /\ downRun' = 0

\* a run of consecutive 'down' events: where it began and how long it is
TrackRun(k) ==
    IF k.name = "down"
    THEN IF downRun >= Len(options)
         THEN runStart' = selected /\ downRun' = 1
         ELSE runStart' = runStart /\ downRun' = downRun + 1
    ELSE runStart' = selected' /\ downRun' = 0

\* a 'keypress' event reaches the subscribed handler
KeyPress(k) ==
    /\ listening
    /\ key' = k
    /\ LET d == Dispatch(k)
       IN  CASE d.op = "render" -> Render(d.offset)
             [] d.op = "exit"   -> Exit(d.arg)
             [] OTHER           -> /\ renders' = 0
                                   /\ UNCHANGED <<promptVars, cleared, drawn>>
    /\ TrackRun(k)
    /\ UNCHANGED <<pc, bumpVars, fileVars, flowVars>>

---------------------------------------------------------------------------
(* package.json                                                            *)

\* the devDependencies field: absent (undefined), or an object
Absent == [present |-> FALSE, deps |-> {}]

DevDepsValues == {Absent, [present |-> TRUE, deps |-> {<<"x", "1.0.0">>}]}

\* the fields of the manifest the script never touches
OtherFields == {<<"name", "@webergency-types/iam">>, <<"main", "types.d.ts">>}

NoManifest == [version |-> Undefined, devDependencies |-> Absent, rest |-> {}]

Manifest(c, dd) == [version |-> VersionString(c), devDependencies |-> dd, rest |-> OtherFields]

\* getPackageJson: JSON.parse of the file
getPackageJson == [version |-> disk.version, devDependencies |-> disk.devDependencies,
                   rest |-> disk.rest]


\* mutant: only the fields the script knows are written back
Stringify_KnownFieldsOnly(obj) ==
    [version |-> obj.version,
     devDependencies |-> IF obj.devDependencies.present THEN obj.devDependencies ELSE Absent,
     rest |-> {}]

\* JSON.stringify( packageJson, null, 4 ): a property that is undefined is left out
Stringify(obj) ==
    [version |-> obj.version,
     devDependencies |-> IF obj.devDependencies.present THEN obj.devDependencies ELSE Absent,
     rest |-> obj.rest]


\* mutant: the test is startsWith instead of includes
Contains_PrefixOnly(s, sub) == StartsWith(s, sub)

\* s.includes( sub )
Contains(s, sub) == \E i \in 1..Len(s) : i + Len(sub) - 1 <= Len(s) /\ SubSeq(s, i, i + Len(sub) - 1) = sub

---------------------------------------------------------------------------
(* DebugExec and the values the script throws                              *)

\* child.on('exit', code): null when the child was ended by a signal
NullCode == -1

ExitCodes == (0..MaxExitCode) \cup {NullCode}

NoChild == "none"

NoError == [kind |-> "none", code |-> 0]

TypeError == [kind |-> "TypeError", code |-> 0]

\* reject( code )
ExitError(code) ==
    IF code = NullCode THEN [kind |-> "null", code |-> 0] ELSE [kind |-> "number", code |-> code]

\* the value a rejected select is rejected with
RejectionError(value) ==
    IF value = Undefined THEN [kind |-> "undefined", code |-> 0] ELSE [kind |-> "string", code |-> 0]

\* err.message can be read: reading a property of null or undefined throws a TypeError
CanReadMessage(e) == e.kind \notin {"null", "undefined"}

NoOutcome == [state |-> "none", error |-> NoError]

Outcome(e) == IF e = NoError THEN [state |-> "resolved", error |-> NoError]
                             ELSE [state |-> "rejected", error |-> e]

NoFailure == [cmd |-> NoChild, code |-> 0]

---------------------------------------------------------------------------
(* PackageManager.publish: catch and finally                               *)

\* catch (error): print err.message, revert the version if it was bumped, rethrow
PublishCatch(error, pkg, origVersion) ==
    IF ~CanReadMessage(error)
    THEN [pkg |-> pkg, saved |-> <<>>, printed |-> FALSE, thrown |-> TypeError]
    ELSE IF pkg.version # origVersion
    THEN [pkg |-> [pkg EXCEPT !.version = origVersion],
          saved |-> <<Stringify([pkg EXCEPT !.version = origVersion])>>,
          printed |-> TRUE, thrown |-> error]
    ELSE [pkg |-> pkg, saved |-> <<>>, printed |-> TRUE, thrown |-> error]

\* mutant: the finally block never restores devDependencies
PublishFinally_NoRestore(pkg, origDevDeps) == [pkg |-> pkg, saved |-> <<>>]

\* mutant: the finally block restores and saves unconditionally
PublishFinally_Always(pkg, origDevDeps) ==
    [pkg |-> [pkg EXCEPT !.devDependencies = origDevDeps],
     saved |-> <<Stringify([pkg EXCEPT !.devDependencies = origDevDeps])>>]

\* finally: restore devDependencies if they were removed
PublishFinally(pkg, origDevDeps) ==
    IF pkg.devDependencies # origDevDeps
    THEN [pkg |-> [pkg EXCEPT !.devDependencies = origDevDeps],
          saved |-> <<Stringify([pkg EXCEPT !.devDependencies = origDevDeps])>>]
    ELSE [pkg |-> pkg, saved |-> <<>>]


\* mutant: the bump leaves devDependencies in the manifest
Bumped_KeepDevDependencies(pkg, version) == [pkg EXCEPT !.version = version]

\* packageJson.version = newVersion; delete packageJson.devDependencies
Bumped(pkg, version) == [pkg EXCEPT !.version = version, !.devDependencies = Absent]

\* main's catch: silent for undefined, else print err.message || error
MainCatch(error) ==
    IF error.kind = "undefined" THEN [printed |-> FALSE, thrown |-> NoError]
    ELSE IF ~CanReadMessage(error) THEN [printed |-> FALSE, thrown |-> TypeError]
    ELSE [printed |-> TRUE, thrown |-> NoError]

---------------------------------------------------------------------------
(* The option lists the script selects from                                *)

ActionMenu ==
    [question |-> <<"Select an action:">>,
     keys     |-> << <<"publish">>, <<"build">>, <<"clean">> >>,
     labels   |-> << <<"Publish">>, <<"Build">>, <<"Clean">> >>]

TypeMenu ==
    [question |-> <<"Select version type to increase:">>,
     keys     |-> << <<"rc">>, <<"patch">>, <<"minor">>, <<"major">> >>,
     labels   |-> << <<"RC (Release Candidate)">>, <<"Patch">>, <<"Minor">>, <<"Major">> >>]

BaseMenu ==
    [question |-> <<"Select base version type to increase for RC:">>,
     keys     |-> << <<"patch">>, <<"minor">>, <<"major">> >>,
     labels   |-> << <<"Patch">>, <<"Minor">>, <<"Major">> >>]

ConfirmMenu(version) ==
    [question |-> <<"Ready to publish version ">> \o version \o <<":">>,
     keys     |-> << <<"publish">>, <<"cancel">> >>,
     labels   |-> << <<"Publish ">> \o version, <<"Cancel">> >>]

\* select( question, options ) with an array: the options are their own keys
ArrayMenu(q, n) ==
    [question |-> q,
     keys     |-> [i \in 1..n |-> <<"option">> \o ToStr(i)],
     labels   |-> [i \in 1..n |-> <<"option">> \o ToStr(i)]]

SelectMenu(m) == Select(m.question, m.keys, m.labels)

---------------------------------------------------------------------------
(* main and PackageManager.publish, one action per resumption              *)

Spawn(cmd) == child' = cmd /\ started' = Append(started, cmd)

\* main's catch and finally, entered with the error thrown in its try block
MainEnds(error, diag) ==
    LET c == IF error = NoError THEN [printed |-> FALSE, thrown |-> NoError]
                                ELSE MainCatch(error)
    IN  /\ stderr' = stderr \cup diag \cup (IF c.printed THEN {"main"} ELSE {})
        /\ mainOutcome' = Outcome(c.thrown)
        /\ pc' = "exiting"

\* publish leaves its try block: finally, then back in main
PublishEnds(error, pkg, saved, diag) ==
    LET f   == PublishFinally(pkg, originalDevDependencies)
        all == saved \o f.saved
    IN  /\ packageJson' = f.pkg
        /\ writes' = writes \o all
        /\ disk' = IF all = <<>> THEN disk ELSE all[Len(all)]
        /\ publishOutcome' = Outcome(error)
        /\ MainEnds(error, diag)
        /\ UNCHANGED <<disk0, originalDevDependencies, bumpVars, exitCode>>

PublishFails(error) ==
    LET c == PublishCatch(error, packageJson, originalVersion)
    IN  PublishEnds(c.thrown, c.pkg, c.saved, IF c.printed THEN {"publish"} ELSE {})

PublishReturns == PublishEnds(NoError, packageJson, <<>>, {})


\* mutant: the version is bumped and persisted before the build
PublishStart_BumpFirst(type, rc, rcOnly) ==
    /\ versionType' = type
    /\ isRc' = rc
    /\ incrementRcOnly' = rcOnly
    /\ originalVersion' = getPackageJson.version
    /\ originalDevDependencies' = getPackageJson.devDependencies
    /\ newVersion' = bumpVersion(getPackageJson.version, type, rc, rcOnly)
    /\ packageJson' = Bumped(getPackageJson, newVersion')
    /\ disk' = Stringify(packageJson')
    /\ writes' = Append(writes, disk')
    /\ Spawn("clean")
    /\ pc' = "p_clean"
    /\ UNCHANGED <<vin, disk0, failure, confirmation, stderr,
                   publishOutcome, mainOutcome, exitCode>>

\* publish( versionType, isRc, incrementRcOnly ) up to its first await
PublishStart(type, rc, rcOnly) ==
    /\ versionType' = type
    /\ isRc' = rc
    /\ incrementRcOnly' = rcOnly
    /\ packageJson' = getPackageJson
    /\ originalVersion' = getPackageJson.version
    /\ originalDevDependencies' = getPackageJson.devDependencies
    /\ newVersion' = bumpVersion(getPackageJson.version, type, rc, rcOnly)
    /\ Spawn("clean")
    /\ pc' = "p_clean"
    /\ UNCHANGED <<vin, disk0, disk, writes, failure, confirmation, stderr,
                   publishOutcome, mainOutcome, exitCode>>

MainStart ==
    /\ pc = "main"
    /\ SelectMenu(ActionMenu)
    /\ pc' = "awaitAction"
    /\ UNCHANGED <<bumpVars, fileVars, flowVars>>

\* main leaves with the rejection of a select
SelectRejected ==
    /\ MainEnds(RejectionError(promise.value), {})
    /\ UNCHANGED <<bumpVars, fileVars, child, started, failure, confirmation,
                   publishOutcome, exitCode, promptVars, traceVars>>

ActionChosen ==
    /\ pc = "awaitAction"
    /\ promise.state \in {"resolved", "rejected"}
    /\ IF promise.state = "rejected" THEN SelectRejected
       ELSE IF promise.value = <<"clean">>
       THEN /\ Spawn("clean")
            /\ pc' = "m_clean"
            /\ UNCHANGED <<bumpVars, fileVars, failure, confirmation, stderr,
                           publishOutcome, mainOutcome, exitCode, promptVars, traceVars>>
       ELSE IF promise.value = <<"build">>
       THEN /\ Spawn("clean")
            /\ pc' = "b_clean"
            /\ UNCHANGED <<bumpVars, fileVars, failure, confirmation, stderr,
                           publishOutcome, mainOutcome, exitCode, promptVars, traceVars>>
       ELSE IF promise.value = <<"publish">>
       THEN /\ SelectMenu(TypeMenu)
            /\ pc' = "awaitType"
            /\ UNCHANGED <<bumpVars, fileVars, flowVars>>
       ELSE /\ MainEnds(NoError, {})
            /\ UNCHANGED <<bumpVars, fileVars, child, started, failure, confirmation,
                           publishOutcome, exitCode, promptVars, traceVars>>

TypeChosen ==
    /\ pc = "awaitType"
    /\ promise.state \in {"resolved", "rejected"}
    /\ IF promise.state = "rejected" THEN SelectRejected
       ELSE IF promise.value = <<"rc">>
       THEN IF Contains(getPackageJson.version, <<"-", "r", "c", ".">>)
            THEN /\ PublishStart(<<"patch">>, TRUE, TRUE)
                 /\ UNCHANGED <<promptVars, traceVars>>
            ELSE /\ SelectMenu(BaseMenu)
                 /\ pc' = "awaitBase"
                 /\ UNCHANGED <<bumpVars, fileVars, flowVars>>
       ELSE /\ PublishStart(promise.value, FALSE, FALSE)
            /\ UNCHANGED <<promptVars, traceVars>>

BaseChosen ==
    /\ pc = "awaitBase"
    /\ promise.state \in {"resolved", "rejected"}
    /\ IF promise.state = "rejected" THEN SelectRejected
       ELSE /\ PublishStart(promise.value, TRUE, FALSE)
            /\ UNCHANGED <<promptVars, traceVars>>

\* the child of clean() exits
CleanExit(code) ==
    /\ pc \in {"m_clean", "b_clean", "p_clean"}
    /\ child = "clean"
    /\ IF code = 0
       THEN /\ failure' = failure
            /\ CASE pc = "m_clean" ->
                      /\ child' = NoChild
                      /\ MainEnds(NoError, {})
                      /\ UNCHANGED <<bumpVars, fileVars, started, confirmation,
                                     publishOutcome, exitCode>>
                 [] pc = "b_clean" ->
                      /\ Spawn("compile")
                      /\ pc' = "b_compile"
                      /\ UNCHANGED <<bumpVars, fileVars, confirmation, stderr,
                                     publishOutcome, mainOutcome, exitCode>>
                 [] pc = "p_clean" ->
                      /\ Spawn("compile")
                      /\ pc' = "p_compile"
                      /\ UNCHANGED <<bumpVars, fileVars, confirmation, stderr,
                                     publishOutcome, mainOutcome, exitCode>>
       ELSE /\ failure' = [cmd |-> "clean", code |-> code]
            /\ child' = NoChild
            /\ IF pc = "p_clean"
               THEN /\ PublishFails(ExitError(code))
                    /\ UNCHANGED <<started, confirmation>>
               ELSE /\ MainEnds(ExitError(code), {})
                    /\ UNCHANGED <<bumpVars, fileVars, started, confirmation,
                                   publishOutcome, exitCode>>
    /\ UNCHANGED <<promptVars, traceVars>>

\* the child of build()'s compile command exits
CompileExit(code) ==
    /\ pc \in {"b_compile", "p_compile"}
    /\ child = "compile"
    /\ child' = NoChild
    /\ IF code = 0
       THEN /\ failure' = failure
            /\ IF pc = "b_compile"
               THEN /\ MainEnds(NoError, {})
                    /\ UNCHANGED <<bumpVars, fileVars, started, confirmation,
                                   publishOutcome, exitCode, promptVars, traceVars>>
               ELSE /\ SelectMenu(ConfirmMenu(newVersion))
                    /\ pc' = "p_confirm"
                    /\ UNCHANGED <<bumpVars, fileVars, started, confirmation, stderr,
                                   publishOutcome, mainOutcome, exitCode>>
       ELSE /\ failure' = [cmd |-> "compile", code |-> code]
            /\ IF pc = "p_compile"
               THEN /\ PublishFails(ExitError(code))
                    /\ UNCHANGED <<started, confirmation>>
               ELSE /\ MainEnds(ExitError(code), {})
                    /\ UNCHANGED <<bumpVars, fileVars, started, confirmation,
                                   publishOutcome, exitCode>>
            /\ UNCHANGED <<promptVars, traceVars>>

\* the confirmation select settles
Confirmed ==
    /\ pc = "p_confirm"
    /\ promise.state \in {"resolved", "rejected"}
    /\ IF promise.state = "rejected"
       THEN /\ confirmation' = "rejected"
            /\ PublishFails(RejectionError(promise.value))
            /\ UNCHANGED <<child, started, failure>>
       ELSE IF promise.value = <<"cancel">>
       THEN /\ confirmation' = "cancel"
            /\ PublishReturns
            /\ UNCHANGED <<child, started, failure>>
       ELSE /\ confirmation' = "publish"
            /\ packageJson' = Bumped(packageJson, newVersion)
            /\ disk' = Stringify(Bumped(packageJson, newVersion))
            /\ writes' = Append(writes, Stringify(Bumped(packageJson, newVersion)))
            /\ Spawn("publish")
            /\ pc' = "p_publish"
            /\ UNCHANGED <<bumpVars, disk0, originalDevDependencies, failure, stderr,
                           publishOutcome, mainOutcome, exitCode>>
    /\ UNCHANGED <<promptVars, traceVars>>


\* mutant: the commit and push command is started whatever 'npm publish' exited with
PublishExit_IgnoreCode(code) ==
    /\ pc = "p_publish"
    /\ child = "publish"
    /\ Spawn("commit")
    /\ pc' = "p_commit"
    /\ failure' = IF code = 0 THEN failure ELSE [cmd |-> "publish", code |-> code]
    /\ UNCHANGED <<bumpVars, fileVars, confirmation, stderr,
                   publishOutcome, mainOutcome, exitCode>>
    /\ UNCHANGED <<promptVars, traceVars>>

\* the child of 'npm publish' exits
PublishExit(code) ==
    /\ pc = "p_publish"
    /\ child = "publish"
    /\ IF code = 0
       THEN /\ Spawn("commit")
            /\ pc' = "p_commit"
            /\ UNCHANGED <<bumpVars, fileVars, failure, confirmation, stderr,
                           publishOutcome, mainOutcome, exitCode>>
       ELSE /\ child' = NoChild
            /\ failure' = [cmd |-> "publish", code |-> code]
            /\ PublishFails(ExitError(code))
            /\ UNCHANGED <<started, confirmation>>
    /\ UNCHANGED <<promptVars, traceVars>>

\* the child of the commit and push command exits
CommitExit(code) ==
    /\ pc = "p_commit"
    /\ child = "commit"
    /\ child' = NoChild
    /\ IF code = 0
       THEN /\ failure' = failure
            /\ PublishReturns
       ELSE /\ failure' = [cmd |-> "commit", code |-> code]
            /\ PublishFails(ExitError(code))
    /\ UNCHANGED <<started, confirmation, promptVars, traceVars>>

\* the timer set in main's finally fires, unless the rejection of main ended the process first
ProcessExit ==
    /\ pc = "exiting"
    /\ pc' = "exited"
    /\ exitCode' \in (IF mainOutcome.state = "rejected" THEN {{0}, {1}} ELSE {{0}})
    /\ UNCHANGED <<bumpVars, fileVars, child, started, failure, confirmation, stderr,
                   publishOutcome, mainOutcome, promptVars, traceVars>>

---------------------------------------------------------------------------
(* Specifications                                                          *)

InitPrompt ==
    /\ question = Null
    /\ options = <<>>
    /\ keys = <<>>
    /\ selected = 0
    /\ rawMode = FALSE
    /\ listening = FALSE
    /\ promise = NoPromise
    /\ key = NoKeyEvent
    /\ renders = 0
    /\ cleared = 0
    /\ drawn = 0
    /\ runStart = 0
    /\ downRun = 0

InitFlow ==
    /\ child = NoChild
    /\ started = <<>>
    /\ failure = NoFailure
    /\ confirmation = "none"
    /\ stderr = {}
    /\ publishOutcome = NoOutcome
    /\ mainOutcome = NoOutcome
    /\ exitCode = {}

InitFile(c, dd) ==
    /\ vin = c
    /\ disk0 = Manifest(c, dd)
    /\ disk = Manifest(c, dd)
    /\ writes = <<>>
    /\ packageJson = NoManifest
    /\ originalDevDependencies = Absent

\* a run of main
Init ==
    /\ pc = "main"
    /\ \E c \in Components(MaxDiskNum), dd \in DevDepsValues : InitFile(c, dd)
    /\ versionType = Undefined
    /\ isRc = FALSE
    /\ incrementRcOnly = FALSE
    /\ originalVersion = Undefined
    /\ newVersion = Undefined
    /\ InitFlow
    /\ InitPrompt

Next ==
    \/ MainStart
    \/ \E k \in KeyEvents : KeyPress(k)
    \/ ActionChosen
    \/ TypeChosen
    \/ BaseChosen
    \/ \E code \in ExitCodes : CleanExit(code)
    \/ \E code \in ExitCodes : CompileExit(code)
    \/ Confirmed
    \/ \E code \in ExitCodes : PublishExit(code)
    \/ \E code \in ExitCodes : CommitExit(code)
    \/ ProcessExit

Spec == Init /\ [][Next]_vars

\* bumpVersion applied to every version string and argument within the bounds
InitBump ==
    /\ pc = "bump"
    /\ \E c \in Components(MaxNum) :
          /\ InitFile(c, Absent)
          /\ originalVersion = VersionString(c)
    /\ versionType \in VersionTypes
    /\ isRc \in BOOLEAN
    /\ incrementRcOnly \in BOOLEAN
    /\ newVersion = Undefined
    /\ InitFlow
    /\ InitPrompt

BumpVersionCall ==
    /\ pc = "bump"
    /\ newVersion' = bumpVersion(originalVersion, versionType, isRc, incrementRcOnly)
    /\ pc' = "bumped"
    /\ UNCHANGED <<vin, versionType, isRc, incrementRcOnly, originalVersion,
                   fileVars, flowVars, promptVars, traceVars>>

NextBump == BumpVersionCall

SpecBump == InitBump /\ [][NextBump]_vars

\* a Prompt used on its own: select after select, each driven by key events
InitSelect ==
    /\ pc = "prompt"
    /\ InitFile([major |-> 0, minor |-> 0, patch |-> 0, suffix |-> NoSuffix], Absent)
    /\ versionType = Undefined
    /\ isRc = FALSE
    /\ incrementRcOnly = FALSE
    /\ originalVersion = Undefined
    /\ newVersion = Undefined
    /\ InitFlow
    /\ InitPrompt

Menus ==
    {ActionMenu, TypeMenu, BaseMenu, ConfirmMenu(<<"1", ".", "0", ".", "1">>)}
        \cup {ArrayMenu(q, n) : q \in {Null, <<"Question">>}, n \in 1..MaxOpts}

SelectCall(m) ==
    /\ pc = "prompt"
    /\ promise.state # "pending"
    /\ SelectMenu(m)
    /\ UNCHANGED <<pc, bumpVars, fileVars, flowVars>>

NextSelect ==
    \/ \E m \in Menus : SelectCall(m)
    \/ \E k \in KeyEvents : KeyPress(k)

SpecSelect == InitSelect /\ [][NextSelect]_vars

---------------------------------------------------------------------------
(* Properties of PackageManager.bumpVersion (checked under SpecBump)       *)

\* the version the claims expect from a base bump of the components c
BaseBumped(c, type) ==
    CASE type = <<"major">> -> [major |-> c.major + 1, minor |-> 0, patch |-> 0, suffix |-> NoSuffix]
      [] type = <<"minor">> -> [major |-> c.major, minor |-> c.minor + 1, patch |-> 0, suffix |-> NoSuffix]
      [] type = <<"patch">> -> [major |-> c.major, minor |-> c.minor, patch |-> c.patch + 1, suffix |-> NoSuffix]

\* the part of a version string before its first '-'
BaseOf(s) ==
    IF \E i \in 1..Len(s) : s[i] = "-"
    THEN SubSeq(s, 1, (CHOOSE i \in 1..Len(s) : s[i] = "-" /\ \A j \in 1..(i - 1) : s[j] # "-") - 1)
    ELSE s

\* C3: for an input major.minor.patch-rc.N, bumpVersion with isRc = true and
\* incrementRcOnly = true returns major.minor.patch-rc.(N+1).
C3_RcCounterIncremented ==
    \A n \in 1..MaxRc :
        (pc = "bumped" /\ isRc /\ incrementRcOnly /\ vin.suffix = RcSuffix(n))
            => newVersion = VersionString([vin EXCEPT !.suffix = RcSuffix(n + 1)])

\* C6: with isRc = false and incrementRcOnly = false, type major returns
\* (major+1).0.0, minor returns major.(minor+1).0 and patch returns
\* major.minor.(patch+1), each without a prerelease suffix, whatever suffix the
\* input carried.
C6_BaseBump ==
    (pc = "bumped" /\ ~isRc /\ ~incrementRcOnly /\ versionType # <<"rc">>)
        => newVersion = VersionString(BaseBumped(vin, versionType))

C6_Witness ==
    /\ pc = "bumped" /\ ~isRc /\ ~incrementRcOnly
    /\ versionType = <<"minor">>
    /\ vin = [major |-> 1, minor |-> 9, patch |-> 3, suffix |-> RcSuffix(1)]
    /\ newVersion = <<"1", ".", "1", "0", ".", "0">>

\* C7: when incrementRcOnly = true, the major, minor and patch components of
\* the result are those of the input, for every type (rc included) and either
\* value of isRc.
C7_RcOnlyKeepsBase ==
    (pc = "bumped" /\ incrementRcOnly)
        => BaseOf(newVersion) = VersionString([vin EXCEPT !.suffix = NoSuffix])

C7_Witness ==
    /\ pc = "bumped" /\ incrementRcOnly /\ isRc
    /\ versionType = <<"major">>
    /\ vin = [major |-> 1, minor |-> 2, patch |-> 3, suffix |-> NoSuffix]
    /\ newVersion = <<"1", ".", "2", ".", "3", "-", "r", "c", ".", "1">>

\* C8: with isRc = true and incrementRcOnly = false and a type among major,
\* minor, patch, the result is the base-bumped version suffixed with -rc.1,
\* whether or not the input carried a prerelease.
C8_FirstReleaseCandidate ==
    (pc = "bumped" /\ isRc /\ ~incrementRcOnly /\ versionType # <<"rc">>)
        => newVersion = VersionString(BaseBumped(vin, versionType)) \o RcSuffix(1)

C8_Witness ==
    /\ pc = "bumped" /\ isRc /\ ~incrementRcOnly
    /\ versionType = <<"patch">>
    /\ vin = [major |-> 1, minor |-> 2, patch |-> 3, suffix |-> RcSuffix(2)]
    /\ newVersion = <<"1", ".", "2", ".", "4", "-", "r", "c", ".", "1">>

---------------------------------------------------------------------------
(* Properties of PackageManager.publish within a run of main (under Spec)  *)

PublishFinished == publishOutcome.state \in {"resolved", "rejected"}

\* C1: when the user confirmed and the publish or the commit and push command
\* then failed, with a nonzero exit code or with no exit code, the manifest on
\* disk once publish has finished has the original version, and its
\* devDependencies, if originally present, are present and unchanged.
C1_RollbackOnFailure ==
    (PublishFinished /\ confirmation = "publish" /\ failure.cmd \in {"publish", "commit"})
        => /\ disk.version = disk0.version
           /\ disk0.devDependencies.present => disk.devDependencies = disk0.devDependencies

\* C2: when build, publish and commit and push all exit with code 0 and the
\* user confirms, the last manifest persisted has the computed target version
\* and the original devDependencies.
C2_SuccessRestores ==
    (PublishFinished /\ confirmation = "publish" /\ failure = NoFailure)
        => /\ writes # <<>>
           /\ disk = writes[Len(writes)]
           /\ writes[Len(writes)].version = newVersion
           /\ writes[Len(writes)].devDependencies = disk0.devDependencies

C2_Witness ==
    /\ PublishFinished /\ confirmation = "publish" /\ failure = NoFailure
    /\ started = <<"clean", "compile", "publish", "commit">>
    /\ disk0.devDependencies.present
    /\ disk0.version = <<"1", ".", "0", ".", "0">>
    /\ disk.version = <<"1", ".", "1", ".", "0">>
    /\ disk.devDependencies = disk0.devDependencies

\* C4: whenever the confirmation prompt ends in cancellation ('cancel' chosen,
\* or the select rejected by Escape or Ctrl+C), publish completes without
\* raising an error and neither publish nor main prints an error diagnostic.
C4_CancelIsQuiet ==
    (PublishFinished /\ confirmation \in {"cancel", "rejected"})
        => publishOutcome.state = "resolved" /\ stderr = {}

\* C5: whenever the confirmation prompt ends in cancellation, savePackageJson
\* is never called during the run and the manifest on disk at the end is the
\* manifest on disk before the run.
C5_CancelWritesNothing ==
    (confirmation \in {"cancel", "rejected"}) => writes = <<>> /\ disk = disk0

C5_Witness ==
    /\ pc = "exited"
    /\ confirmation = "rejected"
    /\ key.name = "escape"
    /\ disk0.devDependencies.present
    /\ writes = <<>>

---------------------------------------------------------------------------
(* Properties of Prompt (checked under SpecSelect)                         *)

\* C9: the selected index stays in 0..N-1 whatever up and down events arrive;
\* N consecutive 'down' events from index 0 return to index 0; 'up' from
\* index 0 moves to index N-1.
C9_SelectionWraps ==
    [][ (listening /\ Len(options) > 0) =>
          /\ selected' \in 0..(Len(options) - 1)
          /\ (key'.name = "down" /\ runStart' = 0 /\ downRun' = Len(options)) => selected' = 0
          /\ (key'.name = "up" /\ selected = 0) => selected' = Len(options) - 1 ]_vars

C9_Witness ==
    /\ promise.state = "pending"
    /\ Len(options) = 4
    /\ key.name = "down" /\ runStart = 0 /\ downRun = 4
    /\ selected = 0

\* C10: an Enter key event resolves the pending select with the key of the
\* selected option, an Escape or Ctrl+C key event rejects it with no value,
\* and no other key event settles it.
C10_SelectOutcome ==
    [][ (listening /\ promise.state = "pending" /\ key'.name # "none") =>
          IF key'.name = "return"
          THEN promise' = [state |-> "resolved", value |-> keys[selected + 1]]
          ELSE IF key'.name = "escape" \/ (key'.name = "c" /\ key'.ctrl)
          THEN promise' = [state |-> "rejected", value |-> Undefined]
          ELSE promise' = promise ]_vars

C10_Witness ==
    /\ promise.state = "resolved"
    /\ key.name = "return"
    /\ selected = 2
    /\ promise.value = <<"minor">>


---------------------------------------------------------------------------
(* Properties of a whole run of main (checked under Spec)                  *)

\* C11: in every run of main, whatever is chosen and however an external
\* command fails (nonzero exit code, or no exit code), main's handler
\* completes without raising and the process exits with code 0.
C11_ExitsWithZero ==
    /\ pc \in {"exiting", "exited"} => mainOutcome.state = "resolved"
    /\ pc = "exited" => exitCode = {0}

\* C12: every manifest written by savePackageJson during a run (bump,
\* rollback, restore) has all fields other than version and devDependencies
\* as they were in the manifest read at the start of the run.
C12_OtherFieldsPreserved ==
    /\ \A i \in 1..Len(writes) : writes[i].rest = disk0.rest
    /\ disk.rest = disk0.rest

C12_Witness ==
    /\ Len(writes) = 3
    /\ writes[1].version = newVersion /\ ~writes[1].devDependencies.present
    /\ writes[2].version = disk0.version /\ writes[2].version # newVersion
    /\ writes[3].devDependencies.present
    /\ \A i \in 1..3 : writes[i].rest = OtherFields

\* C13: up to and including the moment the confirmation select settles, the
\* manifest on disk has the original version and devDependencies, so the clean
\* and compile commands run against the unmodified manifest.
C13_NoWriteBeforeConfirmation ==
    /\ confirmation = "none" => writes = <<>> /\ disk = disk0
    /\ child \in {"clean", "compile"} => disk = disk0

C13_Witness ==
    /\ pc = "p_confirm"
    /\ started = <<"clean", "compile">>
    /\ promise = [state |-> "resolved", value |-> <<"publish">>]
    /\ disk0.devDependencies.present
    /\ newVersion # disk0.version
    /\ disk = disk0


\* the order in which a publish run starts its external commands
CommandOrder == <<"clean", "compile", "publish", "commit">>

\* C14: external commands start in the order clean, compile, publish, commit
\* and push; each starts only after the previous one exited with code 0 and at
\* most one runs at a time; publish starts only after the user chose 'publish'
\* and the bumped manifest was persisted; commit and push never starts unless
\* publish exited with code 0.
C14_StrictOrdering ==
    /\ Len(started) <= 4 /\ started = SubSeq(CommandOrder, 1, Len(started))
    /\ child # NoChild =>
          /\ started # <<>> /\ child = started[Len(started)]
          /\ failure = NoFailure
    /\ failure # NoFailure =>
          /\ child = NoChild
          /\ failure.cmd = started[Len(started)]
    /\ Len(started) >= 3 =>
          /\ confirmation = "publish"
          /\ writes # <<>>
          /\ writes[1].version = newVersion /\ ~writes[1].devDependencies.present

C14_Witness ==
    /\ started = CommandOrder
    /\ child = "commit"
    /\ pc = "p_commit"
    /\ disk.version = newVersion

\* C15: whenever a select resolves or rejects, raw mode is off and the
\* keypress handler is unsubscribed; a select settles at most once (a settled
\* promise only gives way to the promise of the next select); raw mode is
\* never on, and the handler never subscribed, while an external command runs.
C15_PromptTeardown ==
    [][ /\ promise'.state \in {"resolved", "rejected"} => ~rawMode' /\ ~listening'
        /\ (promise.state \in {"resolved", "rejected"} /\ promise' # promise) => promise' = Pending
        /\ child' # NoChild => ~rawMode' /\ ~listening' ]_vars

C15_Witness ==
    /\ child = "publish"
    /\ promise = [state |-> "resolved", value |-> <<"publish">>]
    /\ key.name = "return"
    /\ ~rawMode /\ ~listening

\* the manifest's version carries the reserved prerelease label
HasRcSuffix == \E n \in 1..MaxRc : vin.suffix = RcSuffix(n)

BaseTypes == {<<"patch">>, <<"minor">>, <<"major">>}

\* C16: publish is never called with versionType 'rc'; when 'rc' is chosen
\* and the manifest version carries -rc., publish is called with (patch, true,
\* true) without a further prompt; otherwise the base type is asked for and
\* publish is called with (that type, true, false); a type other than 'rc' is
\* passed on with (type, false, false).
C16_MenuGuarantee ==
    /\ versionType # Undefined => versionType \in BaseTypes
    /\ pc = "awaitBase" => ~HasRcSuffix
    /\ pc = "p_clean" =>
          IF keys = BaseMenu.keys
          THEN /\ ~HasRcSuffix
               /\ <<versionType, isRc, incrementRcOnly>> = <<promise.value, TRUE, FALSE>>
          ELSE IF promise.value = <<"rc">>
          THEN /\ HasRcSuffix
               /\ <<versionType, isRc, incrementRcOnly>> = << <<"patch">>, TRUE, TRUE>>
          ELSE <<versionType, isRc, incrementRcOnly>> = <<promise.value, FALSE, FALSE>>

C16_Witness ==
    /\ pc = "p_clean"
    /\ keys = TypeMenu.keys
    /\ promise.value = <<"rc">>
    /\ vin.suffix = RcSuffix(1)
    /\ <<versionType, isRc, incrementRcOnly>> = << <<"patch">>, TRUE, TRUE>>


---------------------------------------------------------------------------
(* Further properties of Prompt (checked under SpecSelect)                 *)

\* lines of a frame as the claims count them: the options, plus 2 for a question
ExpectedLines == Len(options) + (IF question = Null \/ question = <<>> THEN 0 ELSE 2)

\* C17: each up or down key event causes exactly one render, which clears as
\* many lines as the previous frame drew (option count, plus 2 when a question
\* is shown); the initial render of a select clears nothing.
C17_OneRedrawMatchingClear ==
    [][ /\ (listening /\ key'.name \in {"up", "down"}) =>
              /\ renders' = 1
              /\ cleared' = drawn
              /\ drawn = ExpectedLines /\ drawn' = ExpectedLines
        /\ (promise.state # "pending" /\ promise'.state = "pending") =>
              /\ renders' = 1
              /\ cleared' = 0 ]_vars

C17_Witness ==
    /\ promise.state = "pending"
    /\ key.name = "down"
    /\ question = ActionMenu.question
    /\ renders = 1
    /\ cleared = 5 /\ drawn = 5

\* a key event the handler has no case for
IgnoredKey(k) ==
    /\ k.name \notin {"none", "up", "down", "return", "escape"}
    /\ ~(k.name = "c" /\ k.ctrl)

\* C19: while a select is pending, a key event other than up, down, return,
\* escape and Ctrl+C (a plain 'c' included) leaves the selected index, the
\* option list and the subscription unchanged, causes no redraw and does not
\* settle the select.
C19_IgnoredKeys ==
    [][ (listening /\ promise.state = "pending" /\ IgnoredKey(key')) =>
          /\ UNCHANGED <<question, options, keys, selected, rawMode, listening, promise>>
          /\ UNCHANGED <<cleared, drawn>>
          /\ renders' = 0 ]_vars

C19_Witness ==
    /\ promise.state = "pending"
    /\ listening /\ rawMode
    /\ key = [name |-> "c", ctrl |-> FALSE]
    /\ selected = 1
    /\ renders = 0

---------------------------------------------------------------------------
(* The restoring write of publish (checked under Spec)                     *)

\* the writes of the run that put devDependencies back
RestoringWrites == {i \in 1..Len(writes) : writes[i].devDependencies.present}

CommitStarted == \E i \in 1..Len(started) : started[i] = "commit"

StrippedWhilePublishing ==
    child \in {"publish", "commit"} => disk.version = newVersion /\ ~disk.devDependencies.present

\* C18 as stated: when the original manifest has devDependencies, the
\* restoring write is the last write of the run and occurs only after the
\* commit and push command has exited; while the publish and the commit and
\* push commands run, the manifest on disk has the target version and no
\* devDependencies.
C18_RestoreAfterCommit ==
    disk0.devDependencies.present =>
        /\ \A i \in RestoringWrites :
              i = Len(writes) /\ child = NoChild /\ CommitStarted
        /\ StrippedWhilePublishing

\* C18 as amended: the restoring write is the last write of the run and
\* occurs only after the commit and push command has exited or, when the
\* publish command failed, after the publish command has exited; a confirmed
\* run ends with the restoring write; while the publish and the commit and
\* push commands run, the manifest on disk has the target version and no
\* devDependencies.
C18_RestoreAfterLastCommand ==
    disk0.devDependencies.present =>
        /\ \A i \in RestoringWrites :
              /\ i = Len(writes) /\ child = NoChild
              /\ CommitStarted \/ failure.cmd = "publish"
              /\ writes[i].devDependencies = disk0.devDependencies
        /\ (PublishFinished /\ confirmation = "publish") => RestoringWrites # {}
        /\ StrippedWhilePublishing

C18_Witness ==
    /\ PublishFinished
    /\ started = <<"clean", "compile", "publish">>
    /\ failure = [cmd |-> "publish", code |-> 1]
    /\ Len(writes) = 3
    /\ RestoringWrites = {3}
    /\ disk = disk0

=============================================================================
